---- MODULE Spec2Model ----
(***************************************************************************)
(* Model of the mathstro scheduler: two catalogs (sessions, instructor     *)
(* preferences) are parsed from tab-separated files, a randomized          *)
(* first-fit generator builds one candidate assignment per epoch, the      *)
(* candidate is scored and the best one is retained, and the retained best *)
(* is finally mapped back to text rows and written to the output file.     *)
(*                                                                         *)
(* Representation of Python values:                                        *)
(*  - a list is a sequence; Python index i is position i+1 (see At);       *)
(*  - None inside a candidate list is NoneIdx; an Optional list is a       *)
(*    record [isNone, list] (PyNone / PyList);                             *)
(*  - a week-day text is [lead, word, trail]: a word with lead/trail       *)
(*    surrounding blanks, so that str.strip() is not the identity;         *)
(*  - a clock text "H:MM AM" is [hour, period];                            *)
(*  - the slot code f"{day_code}_{hour_code}" is <<day_code, hour_code>>;  *)
(*  - a raised exception is a record [ok |-> FALSE, err |-> name].         *)
(***************************************************************************)
EXTENDS Integers, Sequences, FiniteSets, TLC

VARIABLES
    session_file,               \* lines of the session input file
    instructor_pref_file,       \* lines of the preference input file
    epochs,                     \* hyperparameter: number of epochs
    replicates,                 \* hyperparameter, passed through
    list_of_session,            \* global catalog of Session objects
    list_of_instructor_prefs,   \* global catalog of InstructorPref objects
    best_score,                 \* score of the retained best
    best_session_assignments,   \* retained best candidate (Optional list)
    candidate_session_assignments, \* candidate of the current epoch
    epoch,                      \* number of completed loop iterations
    history,                    \* candidates generated so far, in order
    output_file,                \* content of output_schedules.txt, if written
    pc,                         \* position of scheduler()
    max_attempts,               \* hyperparameter, never read
    verbose,                    \* hyperparameter: diagnostic echo only
    last_shuffle,               \* outcome of the last random.shuffle
    other_run,                  \* a second run of the loop, for comparison
    encode_input,               \* arguments of a call of remap_time_code
    encode_result               \* what that call returned or raised

vars == <<session_file, instructor_pref_file, epochs, replicates,
          list_of_session, list_of_instructor_prefs, best_score,
          best_session_assignments, candidate_session_assignments, epoch,
          history, output_file, pc, max_attempts, verbose, last_shuffle,
          other_run, encode_input, encode_result>>

\* The variables scheduler() itself never writes.
aux == <<max_attempts, verbose, last_shuffle, other_run, encode_input,
         encode_result>>

-----------------------------------------------------------------------------
\* Bounds of the model.
MaxSessions == 2
MaxPrefs == 3
MaxEpochs == 2

-----------------------------------------------------------------------------
\* Python values.
NoneIdx == -1
PyNone == [isNone |-> TRUE, list |-> <<>>]
PyList(l) == [isNone |-> FALSE, list |-> l]
At(list, i) == list[i + 1]
InList(x, list) == \E k \in 1..Len(list) : list[k] = x

Raise(e) == [ok |-> FALSE, err |-> e]
Return(v) == [ok |-> TRUE, val |-> v]

\* Text values.
Day(w) == [lead |-> 0, word |-> w, trail |-> 0]
DayTrail(w) == [lead |-> 0, word |-> w, trail |-> 1]
Clock(h, p) == [hour |-> h, period |-> p]
strip(text) == [text EXCEPT !.lead = 0, !.trail = 0]

-----------------------------------------------------------------------------
\* Session.remap_time_code / InstructorPref.remap_time_code (identical code).
days_mapping ==
    [Monday |-> 0, Tuesday |-> 1, Wednesday |-> 2, Thursday |-> 3,
     Friday |-> 4, Saturday |-> 5, Sunday |-> 6]

days_mapping_get(text, default) ==
    IF text.lead = 0 /\ text.trail = 0 /\ text.word \in DOMAIN days_mapping
    THEN days_mapping[text.word]
    ELSE default

\* Variant of to_24_hour without the 12 AM case.
to_24_hour_midnight_as_noon(hour, period) ==
    IF period = "PM" /\ hour # 12 THEN hour + 12 ELSE hour

to_24_hour(hour, period) ==
    IF period = "PM" /\ hour # 12 THEN hour + 12
    ELSE IF period = "AM" /\ hour = 12 THEN 0
    ELSE hour

remap_time_code(time_code, week_day) ==
    LET _week_day == strip(week_day)
        hour == to_24_hour(time_code.hour, time_code.period)
        hour_code == hour - 7
        day_code == days_mapping_get(_week_day, -1)
    IN  IF hour < 7 \/ hour > 19 THEN Raise("ValueError: time out of range")
        ELSE IF day_code = -1 THEN Raise("ValueError: invalid week day")
        ELSE Return(<<day_code, hour_code>>)

\* Session.__init__: raises when the encoding raises.
Session(week_day, start_time_code, end_time_code) ==
    LET code == remap_time_code(start_time_code, week_day)
    IN  IF ~code.ok THEN code
        ELSE Return([week_day |-> week_day,
                     start_time_code |-> start_time_code,
                     end_time_code |-> end_time_code,
                     encoded_start_time_code |-> code.val])

\* InstructorPref.__init__: raises when the encoding raises.
InstructorPref(uid, name, week_day, start_time_code, end_time_code) ==
    LET code == remap_time_code(start_time_code, week_day)
    IN  IF ~code.ok THEN code
        ELSE Return([uid |-> uid, name |-> name, week_day |-> week_day,
                     start_time_code |-> start_time_code,
                     end_time_code |-> end_time_code,
                     encoded_start_time_code |-> code.val])

-----------------------------------------------------------------------------
\* scheduler_utils: a file is a sequence of lines; a line is the sequence of
\* its tab-separated fields after line.strip() (<<>> for a blank line); the
\* time-range field is the sequence of its " - "-separated clock texts.
RECURSIVE parse_session_lines(_, _)
parse_session_lines(lines, sessions) ==
    IF lines = <<>> THEN sessions
    ELSE LET line == Head(lines) IN
         IF line = <<>> THEN parse_session_lines(Tail(lines), sessions)
         ELSE IF Len(line) # 2 \/ Len(line[2]) # 2 THEN sessions
         ELSE LET session == Session(line[1], line[2][1], line[2][2]) IN
              IF ~session.ok THEN sessions
              ELSE parse_session_lines(Tail(lines), Append(sessions, session.val))

parse_inputSESSION_text(file) == parse_session_lines(file, <<>>)

\* Variant of the preference loader that skips a line that fails and goes on
\* with the next line.
RECURSIVE parse_pref_lines_skip_bad(_, _)
parse_pref_lines_skip_bad(lines, instructor_prefs) ==
    IF lines = <<>> THEN instructor_prefs
    ELSE LET line == Head(lines) IN
         IF line = <<>> \/ Len(line) # 4 \/ Len(line[4]) # 2
         THEN parse_pref_lines_skip_bad(Tail(lines), instructor_prefs)
         ELSE LET instructor_pref ==
                      InstructorPref(line[1], line[2], line[3],
                                     line[4][1], line[4][2]) IN
              IF ~instructor_pref.ok
              THEN parse_pref_lines_skip_bad(Tail(lines), instructor_prefs)
              ELSE parse_pref_lines_skip_bad(Tail(lines),
                       Append(instructor_prefs, instructor_pref.val))

RECURSIVE parse_pref_lines(_, _)
parse_pref_lines(lines, instructor_prefs) ==
    IF lines = <<>> THEN instructor_prefs
    ELSE LET line == Head(lines) IN
         IF line = <<>> THEN parse_pref_lines(Tail(lines), instructor_prefs)
         ELSE IF Len(line) # 4 \/ Len(line[4]) # 2 THEN instructor_prefs
         ELSE LET instructor_pref ==
                      InstructorPref(line[1], line[2], line[3],
                                     line[4][1], line[4][2]) IN
              IF ~instructor_pref.ok THEN instructor_prefs
              ELSE parse_pref_lines(Tail(lines),
                                    Append(instructor_prefs, instructor_pref.val))

parse_inputINSTRUCTOR_PREF_text(file) == parse_pref_lines(file, <<>>)

-----------------------------------------------------------------------------
\* Variant of try_assign_instructor that compares the hour offsets only.
try_assign_instructor_hour_only(instructor_pref, session) ==
    IF instructor_pref.encoded_start_time_code[2] = session.encoded_start_time_code[2]
    THEN [isNone |-> FALSE, val |-> instructor_pref.uid]
    ELSE [isNone |-> TRUE, val |-> ""]

\* scheduler.try_assign_instructor: the uid of the preference when the encoded
\* slot codes are equal, otherwise None.
try_assign_instructor(instructor_pref, session) ==
    IF instructor_pref.encoded_start_time_code = session.encoded_start_time_code
    THEN [isNone |-> FALSE, val |-> instructor_pref.uid]
    ELSE [isNone |-> TRUE, val |-> ""]

\* Python truth value of an Optional[str]: None and "" are false.
truthy(value) == ~value.isNone /\ value.val # ""

\* Outcomes of random.shuffle on [0, ..., n-1]: every permutation.
ShuffleOutcomes(n) ==
    {[k \in 1..n |-> p[k] - 1] : p \in Permutations(1..n)}

\* Variant of the inner for loop without the "idx not in session_assignments"
\* test.
RECURSIVE scan_without_exclusion(_, _, _, _, _)
scan_without_exclusion(shuffled, k, session, instructor_prefs, session_assignments) ==
    IF k > Len(shuffled) THEN NoneIdx
    ELSE IF truthy(try_assign_instructor(At(instructor_prefs, shuffled[k]), session))
         THEN shuffled[k]
         ELSE scan_without_exclusion(shuffled, k + 1, session,
                                     instructor_prefs, session_assignments)

\* Variant of the inner for loop that walks the catalog order 0, 1, ... instead
\* of the shuffled order.
RECURSIVE scan_in_catalog_order(_, _, _, _, _)
scan_in_catalog_order(shuffled, k, session, instructor_prefs, session_assignments) ==
    IF k > Len(shuffled) THEN NoneIdx
    ELSE IF /\ truthy(try_assign_instructor(At(instructor_prefs, k - 1), session))
            /\ ~InList(k - 1, session_assignments)
         THEN k - 1
         ELSE scan_in_catalog_order(shuffled, k + 1, session,
                                    instructor_prefs, session_assignments)

\* The inner for loop (lines 76-85) from position k of the shuffled indices:
\* the first idx whose preference matches the session and is not yet in
\* session_assignments; NoneIdx when the loop ends without a break.
RECURSIVE scan_instructor_prefs(_, _, _, _, _)
scan_instructor_prefs(shuffled, k, session, instructor_prefs, session_assignments) ==
    IF k > Len(shuffled) THEN NoneIdx
    ELSE LET idx == shuffled[k]
             instructor_pref == At(instructor_prefs, idx)
             success == try_assign_instructor(instructor_pref, session)
         IN  IF truthy(success) /\ ~InList(idx, session_assignments)
             THEN idx
             ELSE scan_instructor_prefs(shuffled, k + 1, session,
                                        instructor_prefs, session_assignments)

\* The outer for loop (lines 72-88) over the sessions not yet visited.
RECURSIVE assign_sessions(_, _, _, _)
assign_sessions(sessions, instructor_prefs, shuffled, session_assignments) ==
    IF sessions = <<>> THEN session_assignments
    ELSE assign_sessions(Tail(sessions), instructor_prefs, shuffled,
             Append(session_assignments,
                    scan_instructor_prefs(shuffled, 1, Head(sessions),
                                          instructor_prefs, session_assignments)))

\* Variant of calculate_session_assignments in which replicates bounds the
\* number of shuffled indices each session may try.
calculate_with_replicates_as_limit(sessions, instructor_prefs, reps, shuffled) ==
    assign_sessions(sessions, instructor_prefs,
                    SubSeq(shuffled, 1, IF reps < Len(shuffled)
                                        THEN reps ELSE Len(shuffled)),
                    <<>>)

\* scheduler.calculate_session_assignments; shuffled is the outcome of
\* random.shuffle(list_of_randomized_instructor_pref_indices).
calculate_session_assignments(sessions, instructor_prefs, reps, shuffled) ==
    assign_sessions(sessions, instructor_prefs, shuffled, <<>>)

\* Variant of score_at that applies the penalty but never the reward.
score_at_no_reward(candidate, idx) ==
    IF At(candidate, idx) = NoneIdx THEN -5 ELSE 0

\* Variant of score_at that rewards the same instructor on any day.
score_at_ignores_week_day(candidate, idx) ==
    IF At(candidate, idx) = NoneIdx THEN -5
    ELSE IF idx > 0 /\ At(candidate, idx - 1) # NoneIdx
         THEN IF At(list_of_instructor_prefs, At(candidate, idx)).uid
                   = At(list_of_instructor_prefs, At(candidate, idx - 1)).uid
              THEN 2 ELSE 0
         ELSE 0

\* The contribution of position idx (0-based) to the score (lines 121-131).
score_at(candidate, idx) ==
    LET instructor_idx == At(candidate, idx) IN
    IF instructor_idx = NoneIdx THEN -5
    ELSE IF idx > 0 /\ At(candidate, idx - 1) # NoneIdx
         THEN LET prev_instructor_pref ==
                      At(list_of_instructor_prefs, At(candidate, idx - 1))
                  curr_instructor_pref ==
                      At(list_of_instructor_prefs, instructor_idx)
              IN  IF /\ curr_instructor_pref.uid = prev_instructor_pref.uid
                     /\ curr_instructor_pref.week_day = prev_instructor_pref.week_day
                  THEN 2 ELSE 0
         ELSE 0

\* The score accumulated over the first n positions (lines 118-131).
RECURSIVE score_upto(_, _)
score_upto(candidate, n) ==
    IF n = 0 THEN 0
    ELSE score_upto(candidate, n - 1) + score_at(candidate, n - 1)

candidate_score(candidate) == score_upto(candidate, Len(candidate))

\* Variant of update_best_session_assignment that replaces on strict
\* improvement only, also when nothing is retained yet.
update_best_strict_only(best, score_of_best, candidate) ==
    IF candidate_score(candidate) > score_of_best
    THEN <<PyList(candidate), candidate_score(candidate)>>
    ELSE <<best, score_of_best>>

\* Variant of update_best_session_assignment that also replaces on a tie.
update_best_replaces_on_tie(best, score_of_best, candidate) ==
    IF candidate_score(candidate) >= score_of_best \/ best.isNone
    THEN <<PyList(candidate), candidate_score(candidate)>>
    ELSE <<best, score_of_best>>

\* Variant of update_best_session_assignment that returns the candidate with
\* the old score.
update_best_keeps_score(best, score_of_best, candidate) ==
    IF candidate_score(candidate) > score_of_best \/ best.isNone
    THEN <<PyList(candidate), score_of_best>>
    ELSE <<best, score_of_best>>

\* scheduler.update_best_session_assignment: <<assignments, score>>.
update_best_session_assignment(best, score_of_best, candidate) ==
    LET score == candidate_score(candidate) IN
    IF score > score_of_best \/ best.isNone
    THEN <<PyList(candidate), score>>
    ELSE <<best, score_of_best>>

\* One output row: week_day \t start - end \t uid \t name \n.
formatted_session(session, instructor_pref) ==
    <<session.week_day, session.start_time_code, session.end_time_code,
      instructor_pref.uid, instructor_pref.name>>

\* The loop of map_assignments (lines 148-154) from position idx (0-based).
RECURSIVE map_rows(_, _, _)
map_rows(assignments, idx, _mappings) ==
    IF idx = Len(assignments) THEN Return(_mappings)
    ELSE LET instructor_idx == At(assignments, idx) IN
         IF instructor_idx = NoneIdx
         THEN Raise("TypeError: list indices must be integers, not NoneType")
         ELSE map_rows(assignments, idx + 1,
                  Append(_mappings,
                         formatted_session(At(list_of_session, idx),
                             At(list_of_instructor_prefs, instructor_idx))))

\* Variant of map_assignments that treats None as an empty list.
map_assignments_none_as_empty(best) ==
    IF best.isNone THEN Return(<<>>)
    ELSE map_rows(best.list, 0, <<>>)

\* scheduler.map_assignments: the rows, or the exception it raises.
map_assignments(best) ==
    IF best.isNone THEN Raise("TypeError: NoneType object is not iterable")
    ELSE map_rows(best.list, 0, <<>>)

-----------------------------------------------------------------------------
\* Inputs: the lines the two files may hold.
Mon == Day("Monday")
Tue == Day("Tuesday")
Range9 == <<Clock(9, "AM"), Clock(10, "AM")>>
Range10 == <<Clock(10, "AM"), Clock(11, "AM")>>

SessionLines == {<<Mon, Range9>>, <<Mon, Range10>>, <<Tue, Range9>>}

PrefLines ==
    {<<"I1", "A", Mon, Range9>>,
     <<"I1", "A", Mon, Range10>>,
     <<"I2", "B", Mon, Range10>>}

EpochValues == 0..MaxEpochs
ReplicatesValues == {5}
MaxAttemptsValues == {3}
VerboseValues == {FALSE}

SeqsUpTo(S, n) == UNION {[1..m -> S] : m \in 0..n}

-----------------------------------------------------------------------------
Init ==
    /\ session_file \in SeqsUpTo(SessionLines, MaxSessions)
    /\ instructor_pref_file \in SeqsUpTo(PrefLines, MaxPrefs)
    /\ epochs \in EpochValues
    /\ replicates \in ReplicatesValues
    /\ list_of_session = <<>>
    /\ list_of_instructor_prefs = <<>>
    /\ best_score = 0
    /\ best_session_assignments = PyNone
    /\ candidate_session_assignments = PyNone
    /\ epoch = 0
    /\ history = <<>>
    /\ output_file = PyNone
    /\ pc = "Idle"
    /\ max_attempts \in MaxAttemptsValues
    /\ verbose \in VerboseValues
    /\ last_shuffle = <<>>
    /\ other_run = PyNone
    /\ encode_input = <<>>
    /\ encode_result = PyNone

\* scheduler(), lines 175-183: parse both files, initialise the best record.
Begin ==
    /\ pc = "Idle"
    /\ list_of_session' = parse_inputSESSION_text(session_file)
    /\ list_of_instructor_prefs' = parse_inputINSTRUCTOR_PREF_text(instructor_pref_file)
    /\ best_score' = 0
    /\ best_session_assignments' = PyNone
    /\ pc' = "Running"
    /\ UNCHANGED <<session_file, instructor_pref_file, epochs, replicates,
                   candidate_session_assignments, epoch, history, output_file>>
    /\ UNCHANGED aux

\* One iteration of the epoch loop, lines 184-186.
Epoch ==
    /\ pc = "Running"
    /\ epoch < epochs
    /\ \E shuffled \in ShuffleOutcomes(Len(list_of_instructor_prefs)) :
         LET candidate == calculate_session_assignments(
                              list_of_session, list_of_instructor_prefs,
                              replicates, shuffled)
             updated == update_best_session_assignment(
                              best_session_assignments, best_score, candidate)
         IN  /\ candidate_session_assignments' = PyList(candidate)
             /\ best_session_assignments' = updated[1]
             /\ best_score' = updated[2]
             /\ history' = Append(history, candidate)
    /\ epoch' = epoch + 1
    /\ UNCHANGED <<session_file, instructor_pref_file, epochs, replicates,
                   list_of_session, list_of_instructor_prefs, output_file, pc>>
    /\ UNCHANGED aux

\* Variant of LoopExit that leaves the loop one iteration early.
LoopExitOneEarly ==
    /\ pc = "Running"
    /\ epoch + 1 >= epochs
    /\ pc' = "Done"
    /\ UNCHANGED <<session_file, instructor_pref_file, epochs, replicates,
                   list_of_session, list_of_instructor_prefs, best_score,
                   best_session_assignments, candidate_session_assignments,
                   epoch, history, output_file>>
    /\ UNCHANGED aux

\* The epoch loop is exhausted, line 184.
LoopExit ==
    /\ pc = "Running"
    /\ epoch = epochs
    /\ pc' = "Done"
    /\ UNCHANGED <<session_file, instructor_pref_file, epochs, replicates,
                   list_of_session, list_of_instructor_prefs, best_score,
                   best_session_assignments, candidate_session_assignments,
                   epoch, history, output_file>>
    /\ UNCHANGED aux

\* Lines 192-195 when map_assignments returns: the rows are written.
WriteOutput ==
    /\ pc = "Done"
    /\ map_assignments(best_session_assignments).ok
    /\ output_file' = PyList(map_assignments(best_session_assignments).val)
    /\ pc' = "Written"
    /\ UNCHANGED <<session_file, instructor_pref_file, epochs, replicates,
                   list_of_session, list_of_instructor_prefs, best_score,
                   best_session_assignments, candidate_session_assignments,
                   epoch, history>>
    /\ UNCHANGED aux

\* Line 192 when map_assignments raises: the exception leaves scheduler()
\* before the file is opened.
ProjectionFails ==
    /\ pc = "Done"
    /\ ~map_assignments(best_session_assignments).ok
    /\ pc' = "Failed"
    /\ UNCHANGED <<session_file, instructor_pref_file, epochs, replicates,
                   list_of_session, list_of_instructor_prefs, best_score,
                   best_session_assignments, candidate_session_assignments,
                   epoch, history, output_file>>
    /\ UNCHANGED aux

Next == Begin \/ Epoch \/ LoopExit \/ WriteOutput \/ ProjectionFails

Spec == Init /\ [][Next]_vars

-----------------------------------------------------------------------------
\* Properties of the search loop and of the projection.

HistoryScores == [k \in 1..Len(history) |-> candidate_score(history[k])]

MaxHistoryScore ==
    LET scores == HistoryScores
    IN  CHOOSE m \in {scores[k] : k \in 1..Len(history)} :
            \A k \in 1..Len(history) : scores[k] <= m

FirstMaxEpoch ==
    LET scores == HistoryScores
        best == MaxHistoryScore
    IN  CHOOSE k \in 1..Len(history) :
            /\ scores[k] = best
            /\ \A j \in 1..(k - 1) : scores[j] < best

Filled(candidate) == {i \in 0..(Len(candidate) - 1) : At(candidate, i) # NoneIdx}

\* The rows of the filled positions idx, idx+1, ... of a candidate, in order.
RECURSIVE RowsOfFilled(_, _)
RowsOfFilled(candidate, idx) ==
    IF idx >= Len(candidate) THEN <<>>
    ELSE IF At(candidate, idx) = NoneIdx THEN RowsOfFilled(candidate, idx + 1)
    ELSE <<formatted_session(At(list_of_session, idx),
                             At(list_of_instructor_prefs, At(candidate, idx)))>>
         \o RowsOfFilled(candidate, idx + 1)

LoopStarted == pc # "Idle"
RunEnded == pc \in {"Written", "Failed"}

\* C1: best_score never decreases: its value after every step of the run
\* (initialisation, every epoch) is at least its value before the step, so
\* after epoch 1 it is at least the initial 0.
C1_BestScoreNeverDecreases == [][best_score' >= best_score]_vars

\* C2: the loop starts from best_score = 0 and no best candidate, and as long
\* as every candidate generated so far scored below 0 the best record is
\* still that baseline.
C2_NegativeNeverDisplacesBaseline ==
    (\A k \in 1..Len(history) : HistoryScores[k] < 0)
        => (best_session_assignments = PyNone /\ best_score = 0)

\* C3: after k >= 1 epochs best_score is the maximum of the scores of the k
\* candidates generated so far and the retained best is the earliest
\* candidate that attains it.
C3_BestIsEarliestMaximum ==
    (LoopStarted /\ epoch >= 1) =>
        /\ Len(history) = epoch
        /\ best_score = MaxHistoryScore
        /\ best_session_assignments = PyList(history[FirstMaxEpoch])

\* C3 witness: two epochs have run and the second candidate scored strictly
\* higher than the first, so the retained best is not the first candidate.
C3_Witness ==
    /\ epoch = 2
    /\ HistoryScores[2] > HistoryScores[1]
    /\ best_session_assignments = PyList(history[2])

\* C4: once a best candidate is retained, an epoch whose candidate scores at
\* most best_score (ties included) leaves best_session_assignments and
\* best_score unchanged.
C4_BestSurvivesNonImprovement ==
    [][(/\ ~best_session_assignments.isNone
        /\ epoch' = epoch + 1
        /\ candidate_score(candidate_session_assignments'.list) <= best_score)
       => (/\ best_session_assignments' = best_session_assignments
           /\ best_score' = best_score)]_vars

\* C4 witness: the second candidate differs from the first and ties with it,
\* and the first one is still the retained best.
C4_Witness ==
    /\ epoch = 2
    /\ history[2] # history[1]
    /\ HistoryScores[2] = HistoryScores[1]
    /\ best_session_assignments = PyList(history[1])

\* C5: whenever a best candidate is retained, best_score is the score the
\* scoring rules give to exactly that candidate.
C5_BestScoreIsScoreOfBest ==
    ~best_session_assignments.isNone
        => best_score = candidate_score(best_session_assignments.list)

\* C5 witness: a best candidate with a non-zero score is retained after a
\* replacement in the second epoch.
C5_Witness ==
    /\ epoch = 2
    /\ best_session_assignments = PyList(history[2])
    /\ history[2] # history[1]
    /\ best_score # 0

\* C6: when a run of at least one epoch has ended, the output holds exactly
\* the rows of the filled sessions of the retained best, in session order;
\* unfilled sessions contribute no row and do not prevent the writing.
C6_OutputHasRowPerFilledSession ==
    (RunEnded /\ epochs >= 1 /\ ~best_session_assignments.isNone)
        => output_file = PyList(RowsOfFilled(best_session_assignments.list, 0))

\* C7: with epochs = 0 the loop ends without a best candidate, the projection
\* raises, the run ends in the failed state and nothing is written.
C7_ZeroEpochsProjectionFails ==
    epochs = 0 =>
        /\ best_session_assignments.isNone
        /\ output_file.isNone
        /\ pc \in {"Idle", "Running", "Done", "Failed"}
        /\ pc = "Done" => ~map_assignments(best_session_assignments).ok

\* C7 witness: a run with epochs = 0 has ended in the failed state.
C7_Witness ==
    /\ epochs = 0
    /\ pc = "Failed"
    /\ output_file.isNone

\* C8: with an empty catalog (no sessions, or no preferences) a run of any
\* number of epochs retains no best candidate and its projection fails, so
\* nothing is written.
C8_EmptyCatalogRetainsNoBest ==
    (LoopStarted /\ (list_of_session = <<>> \/ list_of_instructor_prefs = <<>>))
        => /\ best_session_assignments.isNone
           /\ output_file.isNone
           /\ pc # "Written"

\* C9: within every generated candidate (hence also the retained best) two
\* distinct filled positions never hold the same preference index.
C9_NoPreferenceIndexReuse ==
    /\ \A k \in 1..Len(history) :
          \A i, j \in Filled(history[k]) :
              i # j => At(history[k], i) # At(history[k], j)
    /\ ~best_session_assignments.isNone =>
          \A i, j \in Filled(best_session_assignments.list) :
              i # j => At(best_session_assignments.list, i)
                           # At(best_session_assignments.list, j)

\* C9 witness: a candidate fills two sessions that have the same slot code,
\* so the second one had to skip the index taken by the first.
C9_Witness ==
    \E k \in 1..Len(history) :
        \E i, j \in Filled(history[k]) :
            /\ i < j
            /\ At(list_of_session, i).encoded_start_time_code
                   = At(list_of_session, j).encoded_start_time_code

\* C10: every filled entry of every generated candidate references a
\* preference whose slot code has the weekday index and the hour offset of
\* the session at that position.
C10_FilledEntriesAreEligible ==
    \A k \in 1..Len(history) :
        \A i \in Filled(history[k]) :
            LET pref_code == At(list_of_instructor_prefs,
                                At(history[k], i)).encoded_start_time_code
                session_code == At(list_of_session, i).encoded_start_time_code
            IN  pref_code[1] = session_code[1] /\ pref_code[2] = session_code[2]

\* C10 witness: a candidate fills one session and leaves another unfilled
\* although the catalog holds a preference at the same hour on another day.
C10_Witness ==
    \E k \in 1..Len(history) :
        \E i \in Filled(history[k]) :
            \E j \in 0..(Len(history[k]) - 1) :
                /\ At(history[k], j) = NoneIdx
                /\ \E n \in 1..Len(list_of_instructor_prefs) :
                      LET c == list_of_instructor_prefs[n].encoded_start_time_code
                          sc == At(list_of_session, j).encoded_start_time_code
                      IN  c[2] = sc[2] /\ c[1] # sc[1]

-----------------------------------------------------------------------------
\* One epoch at a time with the shuffle outcome kept: the generator and the
\* scoring applied to catalogs that also hold week-day texts with a trailing
\* blank ("Monday " encodes like "Monday" but is another string).
MonTrail == DayTrail("Monday")

GenPrefLines == PrefLines \cup {<<"I1", "A", MonTrail, Range10>>}

InitGen ==
    /\ session_file \in SeqsUpTo(SessionLines, MaxSessions)
    /\ instructor_pref_file \in SeqsUpTo(GenPrefLines, MaxPrefs)
    /\ epochs = 1
    /\ replicates \in ReplicatesValues
    /\ list_of_session = parse_inputSESSION_text(session_file)
    /\ list_of_instructor_prefs = parse_inputINSTRUCTOR_PREF_text(instructor_pref_file)
    /\ best_score = 0
    /\ best_session_assignments = PyNone
    /\ candidate_session_assignments = PyNone
    /\ epoch = 0
    /\ history = <<>>
    /\ output_file = PyNone
    /\ pc = "Running"
    /\ max_attempts \in MaxAttemptsValues
    /\ verbose \in VerboseValues
    /\ last_shuffle = <<>>
    /\ other_run = PyNone
    /\ encode_input = <<>>
    /\ encode_result = PyNone

\* One iteration of the epoch loop, lines 184-186, with the shuffle recorded.
EpochTraced ==
    /\ pc = "Running"
    /\ epoch < epochs
    /\ \E sh \in ShuffleOutcomes(Len(list_of_instructor_prefs)) :
         LET candidate == calculate_session_assignments(
                              list_of_session, list_of_instructor_prefs,
                              replicates, sh)
             updated == update_best_session_assignment(
                              best_session_assignments, best_score, candidate)
         IN  /\ candidate_session_assignments' = PyList(candidate)
             /\ best_session_assignments' = updated[1]
             /\ best_score' = updated[2]
             /\ history' = Append(history, candidate)
             /\ last_shuffle' = sh
    /\ epoch' = epoch + 1
    /\ UNCHANGED <<session_file, instructor_pref_file, epochs, replicates,
                   list_of_session, list_of_instructor_prefs, output_file, pc,
                   max_attempts, verbose, other_run, encode_input,
                   encode_result>>

NextGen == EpochTraced

SpecGen == InitGen /\ [][NextGen]_vars

-----------------------------------------------------------------------------
\* Properties of the scoring and of the generator.

Unfilled(candidate) == {i \in 0..(Len(candidate) - 1) : At(candidate, i) = NoneIdx}

\* The positions idx > 0 with idx-1 and idx filled by preferences of the same
\* instructor_id and the same week_day text.
QualifyingPairs(candidate) ==
    {i \in 1..(Len(candidate) - 1) :
        /\ At(candidate, i) # NoneIdx
        /\ At(candidate, i - 1) # NoneIdx
        /\ At(list_of_instructor_prefs, At(candidate, i)).uid
               = At(list_of_instructor_prefs, At(candidate, i - 1)).uid
        /\ At(list_of_instructor_prefs, At(candidate, i)).week_day
               = At(list_of_instructor_prefs, At(candidate, i - 1)).week_day}

ExpectedScore(candidate) ==
    2 * Cardinality(QualifyingPairs(candidate))
        - 5 * Cardinality(Unfilled(candidate))

\* C11: the score of every candidate is -5 per unfilled position plus 2 per
\* qualifying adjacent pair; all unfilled gives -5 * (session count), fully
\* filled gives 2 * (qualifying pairs) without penalty.
C11_ScoreIsPenaltyPlusReward ==
    \A k \in 1..Len(history) :
        LET c == history[k] IN
        /\ Len(c) = Len(list_of_session)
        /\ candidate_score(c) = ExpectedScore(c)
        /\ k = 1 => best_score = ExpectedScore(c)
        /\ Filled(c) = {} => candidate_score(c) = -5 * Len(list_of_session)
        /\ Unfilled(c) = {} =>
               candidate_score(c) = 2 * Cardinality(QualifyingPairs(c))

\* C11 witness: a scored candidate of two filled positions held by the same
\* instructor under two different week-day texts, so the pair earns nothing.
C11_Witness ==
    /\ epoch = 1
    /\ Len(history[1]) = 2
    /\ Unfilled(history[1]) = {}
    /\ At(list_of_instructor_prefs, At(history[1], 0)).uid
           = At(list_of_instructor_prefs, At(history[1], 1)).uid
    /\ QualifyingPairs(history[1]) = {}
    /\ best_score = 0

\* The positions of the permutation sh whose preference has the slot code of
\* session i and whose index is not recorded at a position before i.
FirstFitPositions(candidate, sh, i) ==
    {k \in 1..Len(sh) :
        /\ At(list_of_instructor_prefs, sh[k]).encoded_start_time_code
               = At(list_of_session, i).encoded_start_time_code
        /\ \A j \in 0..(i - 1) : At(candidate, j) # sh[k]}

MinOf(S) == CHOOSE m \in S : \A n \in S : m <= n

\* C18: the candidate is the greedy first fit over the one permutation drawn
\* for the call: entry i is the first index of the permutation with the
\* session's slot code that no earlier position records, and entry i is
\* unfilled exactly when the permutation holds no such index.
C18_GreedyFirstFit ==
    epoch = 1 =>
        LET c == history[1]
            sh == last_shuffle
        IN  /\ Len(sh) = Len(list_of_instructor_prefs)
            /\ {sh[k] : k \in 1..Len(sh)} = 0..(Len(sh) - 1)
            /\ Len(c) = Len(list_of_session)
            /\ \A i \in 0..(Len(c) - 1) :
                   LET fit == FirstFitPositions(c, sh, i) IN
                   /\ At(c, i) = NoneIdx <=> fit = {}
                   /\ fit # {} => At(c, i) = sh[MinOf(fit)]

\* C18 witness: a permutation that is not the catalog order, a first session
\* taking the index the permutation lists first although a lower index fits,
\* and a second session left with the lower index.
C18_Witness ==
    /\ epoch = 1
    /\ Len(history[1]) = 2
    /\ At(history[1], 0) # NoneIdx
    /\ At(history[1], 1) # NoneIdx
    /\ At(history[1], 1) < At(history[1], 0)
    /\ At(list_of_session, 0).encoded_start_time_code
           = At(list_of_session, 1).encoded_start_time_code

\* No two entries of the preference catalog have the same instructor_id and
\* the same slot code.
NoDuplicatePreference ==
    \A m, n \in 0..(Len(list_of_instructor_prefs) - 1) :
        m # n =>
            \/ At(list_of_instructor_prefs, m).uid
                   # At(list_of_instructor_prefs, n).uid
            \/ At(list_of_instructor_prefs, m).encoded_start_time_code
                   # At(list_of_instructor_prefs, n).encoded_start_time_code

\* The pairs of different filled positions of a candidate whose sessions have
\* the same slot code and whose preferences have the same instructor_id.
DoubleBookings(candidate) ==
    {<<i, j>> \in Filled(candidate) \X Filled(candidate) :
        /\ i # j
        /\ At(list_of_session, i).encoded_start_time_code
               = At(list_of_session, j).encoded_start_time_code
        /\ At(list_of_instructor_prefs, At(candidate, i)).uid
               = At(list_of_instructor_prefs, At(candidate, j)).uid}

\* C21: when the preference catalog holds no two entries with the same
\* instructor_id and slot code, no generated candidate gives two different
\* sessions of the same slot code to the same instructor_id.
C21_NoInstructorDoubleBooked ==
    NoDuplicatePreference =>
        \A k \in 1..Len(history) : DoubleBookings(history[k]) = {}

\* C21 witness: a catalog without duplicates and a candidate whose two
\* sessions of one slot code are both filled, by two instructors.
C21_Witness ==
    /\ epoch = 1
    /\ NoDuplicatePreference
    /\ Len(history[1]) = 2
    /\ Filled(history[1]) = {0, 1}
    /\ At(list_of_session, 0).encoded_start_time_code
           = At(list_of_session, 1).encoded_start_time_code
    /\ At(list_of_instructor_prefs, At(history[1], 0)).uid
           # At(list_of_instructor_prefs, At(history[1], 1)).uid

-----------------------------------------------------------------------------
\* The two scenarios of the search loop.

SingleSessionScenario ==
    /\ session_file = << <<Mon, Range9>> >>
    /\ instructor_pref_file = << <<"I1", "A", Mon, Range9>> >>
    /\ epochs >= 1

TwoSessionScenario ==
    /\ session_file = << <<Mon, Range9>>, <<Mon, Range10>> >>
    /\ instructor_pref_file =
           << <<"I1", "A", Mon, Range9>>, <<"I1", "A", Mon, Range10>> >>
    /\ epochs >= 1

\* C12: with the single session Monday 9:00 AM - 10:00 AM and the single
\* preference (I1, A, Monday, 9:00 AM - 10:00 AM), every candidate is [0] and
\* scores 0, it is the retained best from epoch 1 on, and the run ends with
\* exactly the row Monday, 9:00 AM - 10:00 AM, I1, A written.
C12_SingleSessionScenario ==
    SingleSessionScenario =>
        /\ \A k \in 1..Len(history) :
               history[k] = <<0>> /\ candidate_score(history[k]) = 0
        /\ epoch >= 1 =>
               best_session_assignments = PyList(<<0>>) /\ best_score = 0
        /\ pc # "Failed"
        /\ pc = "Written" =>
               output_file = PyList(<< <<Mon, Clock(9, "AM"), Clock(10, "AM"),
                                         "I1", "A">> >>)

\* C12 witness: the single-session run of two epochs has written its output.
C12_Witness ==
    /\ SingleSessionScenario
    /\ epochs = 2
    /\ pc = "Written"
    /\ Len(output_file.list) = 1

\* C13: with sessions Monday 9-10 and Monday 10-11 and the two I1 preferences
\* for them, no candidate scores above 2 and from epoch 1 on best_score is 2
\* with the sessions assigned to entries 0 and 1.
C13_TwoSessionScenario ==
    TwoSessionScenario =>
        /\ \A k \in 1..Len(history) : candidate_score(history[k]) <= 2
        /\ epoch >= 1 =>
               /\ best_score = 2
               /\ best_session_assignments = PyList(<<0, 1>>)
               /\ \E k \in 1..Len(history) : candidate_score(history[k]) = 2

\* C13 witness: two epochs of the two-session scenario have run and the
\* retained score is 2.
C13_Witness ==
    /\ TwoSessionScenario
    /\ epoch = 2
    /\ best_score = 2

-----------------------------------------------------------------------------
\* The encoder alone: one call of remap_time_code(time_code, week_day) on a
\* clock text "H:00 AM|PM" with H in 1..12 and a week-day text.
DayLead(w) == [lead |-> 1, word |-> w, trail |-> 0]

CanonicalDays == DOMAIN days_mapping

ClockTexts == {Clock(h, p) : h \in 1..12, p \in {"AM", "PM"}}

WeekDayTexts ==
    {Day(w) : w \in CanonicalDays \cup {"Funday", "monday"}}
        \cup {DayTrail("Monday"), DayLead("Sunday"), DayTrail("Funday")}

InitEncode ==
    /\ encode_input \in ClockTexts \X WeekDayTexts
    /\ encode_result = PyNone
    /\ pc = "Encoding"
    /\ session_file = <<>>
    /\ instructor_pref_file = <<>>
    /\ epochs = 0
    /\ replicates \in ReplicatesValues
    /\ list_of_session = <<>>
    /\ list_of_instructor_prefs = <<>>
    /\ best_score = 0
    /\ best_session_assignments = PyNone
    /\ candidate_session_assignments = PyNone
    /\ epoch = 0
    /\ history = <<>>
    /\ output_file = PyNone
    /\ max_attempts \in MaxAttemptsValues
    /\ verbose \in VerboseValues
    /\ last_shuffle = <<>>
    /\ other_run = PyNone

\* The call self.remap_time_code(start_time_code, week_day) of a constructor.
Encode ==
    /\ pc = "Encoding"
    /\ encode_result' = remap_time_code(encode_input[1], encode_input[2])
    /\ pc' = "Encoded"
    /\ UNCHANGED <<session_file, instructor_pref_file, epochs, replicates,
                   list_of_session, list_of_instructor_prefs, best_score,
                   best_session_assignments, candidate_session_assignments,
                   epoch, history, output_file, max_attempts, verbose,
                   last_shuffle, other_run, encode_input>>

NextEncode == Encode

SpecEncode == InitEncode /\ [][NextEncode]_vars

\* The 24-hour hour of a clock text.
Hour24(time_code) ==
    (time_code.hour % 12) + (IF time_code.period = "PM" THEN 12 ELSE 0)

\* The (weekday, clock) combinations the encoder accepts.
AcceptedCombinations ==
    {in \in ClockTexts \X {Day(w) : w \in CanonicalDays} :
        remap_time_code(in[1], in[2]).ok}

\* C14: every slot code produced has a weekday index in 0..6 and an hour
\* offset in 0..11, the accepted (weekday, start hour) combinations number
\* exactly 84, and distinct accepted combinations give distinct slot codes.
C14_SlotCodeRange ==
    (pc = "Encoded" /\ encode_result.ok) =>
        /\ encode_result.val[1] \in 0..6
        /\ encode_result.val[2] \in 0..11
        /\ Cardinality(AcceptedCombinations) = 84
        /\ \A a, b \in AcceptedCombinations :
               a # b => remap_time_code(a[1], a[2]).val
                            # remap_time_code(b[1], b[2]).val

\* C15: the out-of-range error is raised exactly for the clock times whose
\* 24-hour hour is outside [7, 19]; an accepted time gets hour offset
\* hour - 7 (7:00 AM -> 0, 12:00 PM -> 5, 7:00 PM -> 12); 6:00 AM, 8:00 PM
\* and 12:00 AM fail and produce no slot code.
C15_AcceptedHours ==
    pc = "Encoded" =>
        LET time_code == encode_input[1]
            canonical == strip(encode_input[2]).word \in CanonicalDays
            out_of_range == /\ ~encode_result.ok
                            /\ encode_result.err = "ValueError: time out of range"
        IN  /\ out_of_range <=> Hour24(time_code) \notin 7..19
            /\ encode_result.ok <=> (Hour24(time_code) \in 7..19 /\ canonical)
            /\ encode_result.ok =>
                   encode_result.val[2] = Hour24(time_code) - 7
            /\ (encode_result.ok /\ time_code = Clock(7, "AM")) =>
                   encode_result.val[2] = 0
            /\ (encode_result.ok /\ time_code = Clock(12, "PM")) =>
                   encode_result.val[2] = 5
            /\ (encode_result.ok /\ time_code = Clock(7, "PM")) =>
                   encode_result.val[2] = 12
            /\ time_code \in {Clock(7, "AM"), Clock(12, "PM"), Clock(7, "PM")}
                   => (encode_result.ok <=> canonical)
            /\ time_code \in {Clock(6, "AM"), Clock(8, "PM"), Clock(12, "AM")}
                   => out_of_range

\* C15 witness: 12:00 AM on a canonical weekday was rejected as out of range.
C15_Witness ==
    /\ pc = "Encoded"
    /\ encode_input = <<Clock(12, "AM"), Mon>>
    /\ ~encode_result.ok

-----------------------------------------------------------------------------
\* Two runs of the epoch loop side by side: the same catalogs, the same epoch
\* count and the same shuffle outcome in every epoch, the first run with the
\* hyperparameters of main.py, the second with any others; the preference
\* files are shorter than MaxPrefs.
HyperReplicates == {1, 5}
HyperMaxAttempts == {1, 3}
HyperVerbose == {TRUE, FALSE}

OtherRun(reps, attempts, echo, candidate, best, score) ==
    [isNone |-> FALSE, replicates |-> reps, max_attempts |-> attempts,
     verbose |-> echo, candidate_session_assignments |-> candidate,
     best_session_assignments |-> best, best_score |-> score]

InitHyper ==
    /\ session_file \in SeqsUpTo(SessionLines, MaxSessions)
    /\ instructor_pref_file \in SeqsUpTo(PrefLines, MaxPrefs - 1)
    /\ epochs = MaxEpochs
    /\ replicates = 5
    /\ max_attempts = 3
    /\ verbose = FALSE
    /\ list_of_session = parse_inputSESSION_text(session_file)
    /\ list_of_instructor_prefs = parse_inputINSTRUCTOR_PREF_text(instructor_pref_file)
    /\ best_score = 0
    /\ best_session_assignments = PyNone
    /\ candidate_session_assignments = PyNone
    /\ \E reps \in HyperReplicates, attempts \in HyperMaxAttempts,
          echo \in HyperVerbose :
           other_run = OtherRun(reps, attempts, echo, PyNone, PyNone, 0)
    /\ epoch = 0
    /\ history = <<>>
    /\ output_file = PyNone
    /\ pc = "Running"
    /\ last_shuffle = <<>>
    /\ encode_input = <<>>
    /\ encode_result = PyNone

\* One iteration of the epoch loop (lines 184-188) in both runs, on the same
\* shuffle outcome; verbose only selects the print of line 188 and
\* max_attempts is not read.
EpochPair ==
    /\ pc = "Running"
    /\ epoch < epochs
    /\ \E sh \in ShuffleOutcomes(Len(list_of_instructor_prefs)) :
         LET candidate == calculate_session_assignments(
                              list_of_session, list_of_instructor_prefs,
                              replicates, sh)
             updated == update_best_session_assignment(
                              best_session_assignments, best_score, candidate)
             other_candidate == calculate_session_assignments(
                              list_of_session, list_of_instructor_prefs,
                              other_run.replicates, sh)
             other_updated == update_best_session_assignment(
                              other_run.best_session_assignments,
                              other_run.best_score, other_candidate)
         IN  /\ candidate_session_assignments' = PyList(candidate)
             /\ best_session_assignments' = updated[1]
             /\ best_score' = updated[2]
             /\ other_run' = OtherRun(other_run.replicates,
                                      other_run.max_attempts, other_run.verbose,
                                      PyList(other_candidate),
                                      other_updated[1], other_updated[2])
    /\ epoch' = epoch + 1
    /\ UNCHANGED <<session_file, instructor_pref_file, epochs, replicates,
                   list_of_session, list_of_instructor_prefs, history,
                   output_file, pc, max_attempts, verbose, last_shuffle,
                   encode_input, encode_result>>

NextHyper == EpochPair

SpecHyper == InitHyper /\ [][NextHyper]_vars

\* C16: two runs on the same catalogs, epoch count and shuffle outcomes that
\* differ only in replicates, max_attempts and verbose produce the same
\* candidate in every epoch and hold the same best candidate and best score
\* after every epoch.
C16_HyperparametersHaveNoEffect ==
    /\ other_run.candidate_session_assignments = candidate_session_assignments
    /\ other_run.best_session_assignments = best_session_assignments
    /\ other_run.best_score = best_score
    /\ ~candidate_session_assignments.isNone =>
           Len(candidate_session_assignments.list) = Len(list_of_session)

\* C16 witness: after two epochs two runs that differ in all three
\* hyperparameters both hold the last candidate as a best of score 2.
C16_Witness ==
    /\ epoch = 2
    /\ other_run.replicates # replicates
    /\ other_run.max_attempts # max_attempts
    /\ other_run.verbose # verbose
    /\ best_score = 2
    /\ best_session_assignments = candidate_session_assignments

-----------------------------------------------------------------------------
\* The whole call of scheduler() on preference files shorter than MaxPrefs;
\* scheduler() is one sequential call, so a step that can be taken is taken.
InitLoop ==
    /\ Init
    /\ Len(instructor_pref_file) < MaxPrefs

SpecLoop == InitLoop /\ [][Next]_vars

SpecFair == InitLoop /\ [][Next]_vars /\ WF_vars(Next)

\* The order of the positions of scheduler().
PcSuccessors ==
    {<<"Idle", "Running">>, <<"Running", "Done">>,
     <<"Done", "Written">>, <<"Done", "Failed">>}

LoopEnded == pc \in {"Done", "Written", "Failed"}

\* C17: the loop goes Idle -> Running -> Done and never back, it has generated
\* and scored exactly one candidate per completed epoch, it reaches Done, and
\* does so after exactly epochs iterations; from Done on best_score and the
\* best candidate are final.
C17_LoopTerminatesAfterEpochs ==
    /\ [][pc' # pc => <<pc, pc'>> \in PcSuccessors]_vars
    /\ [][epoch' # epoch =>
            /\ pc = "Running" /\ pc' = "Running"
            /\ epoch' = epoch + 1
            /\ history' = Append(history, candidate_session_assignments'.list)]_vars
    /\ [](Len(history) = epoch /\ epoch <= epochs)
    /\ [](LoopEnded => epoch = epochs)
    /\ [][LoopEnded => UNCHANGED <<best_session_assignments, best_score>>]_vars
    /\ <>(pc = "Done")

\* C17 witness: a run of two epochs is at Done with two candidates generated.
C17_Witness ==
    /\ pc = "Done"
    /\ epochs = 2
    /\ epoch = 2
    /\ Len(history) = 2

-----------------------------------------------------------------------------
\* The unfilled positions as a function of the catalogs alone.
SessionsWithSlot(code) ==
    {i \in 0..(Len(list_of_session) - 1) :
        At(list_of_session, i).encoded_start_time_code = code}

PrefsWithSlot(code) ==
    {n \in 0..(Len(list_of_instructor_prefs) - 1) :
        At(list_of_instructor_prefs, n).encoded_start_time_code = code}

SessionSlots ==
    {At(list_of_session, i).encoded_start_time_code :
        i \in 0..(Len(list_of_session) - 1)}

Shortfall(code) ==
    LET d == Cardinality(SessionsWithSlot(code)) - Cardinality(PrefsWithSlot(code))
    IN  IF d > 0 THEN d ELSE 0

RECURSIVE TotalShortfall(_)
TotalShortfall(codes) ==
    IF codes = {} THEN 0
    ELSE LET code == CHOOSE x \in codes : TRUE
         IN  Shortfall(code) + TotalShortfall(codes \ {code})

\* The sessions that come after as many sessions of their own slot as there
\* are preferences with that slot.
ExpectedUnfilled ==
    {i \in 0..(Len(list_of_session) - 1) :
        LET code == At(list_of_session, i).encoded_start_time_code
        IN  Cardinality({j \in SessionsWithSlot(code) : j < i})
                >= Cardinality(PrefsWithSlot(code))}

\* C20: in every candidate of every epoch the unfilled positions are the ones
\* the catalogs determine, whatever the shuffle; their number is the sum over
\* slot codes of max(0, #sessions - #preferences) and the -5 part of the score
\* is the same for every candidate.
C20_UnfilledSetIsShuffleIndependent ==
    \A k \in 1..Len(history) :
        /\ Unfilled(history[k]) = ExpectedUnfilled
        /\ Cardinality(Unfilled(history[k])) = TotalShortfall(SessionSlots)
        /\ \A m \in 1..Len(history) :
               -5 * Cardinality(Unfilled(history[k]))
                   = -5 * Cardinality(Unfilled(history[m]))

\* C20 witness: two epochs whose shuffles gave different candidates with the
\* same, non-empty, set of unfilled positions.
C20_Witness ==
    /\ Len(history) = 2
    /\ history[1] # history[2]
    /\ Unfilled(history[1]) # {}
    /\ Unfilled(history[1]) = Unfilled(history[2])

-----------------------------------------------------------------------------
\* Loading of files that also hold blank lines and lines that fail: a line with
\* a missing field, a start time before 7 AM, a week day days_mapping lacks.
Range6 == <<Clock(6, "AM"), Clock(7, "AM")>>
Funday == Day("Funday")

ParseSessionLines ==
    {<<Mon, Range9>>, <<Tue, Range9>>, <<>>,
     <<Mon>>, <<Mon, Range6>>, <<Funday, Range9>>}

ParsePrefLines ==
    {<<"I1", "A", Mon, Range9>>, <<"I2", "B", Mon, Range10>>, <<>>,
     <<"I1", "A", Mon>>, <<"I1", "A", Mon, Range6>>,
     <<"I2", "B", Funday, Range10>>}

InitParse ==
    /\ session_file \in SeqsUpTo(ParseSessionLines, MaxSessions)
    /\ instructor_pref_file \in SeqsUpTo(ParsePrefLines, MaxPrefs)
    /\ epochs = 0
    /\ replicates \in ReplicatesValues
    /\ list_of_session = <<>>
    /\ list_of_instructor_prefs = <<>>
    /\ best_score = 0
    /\ best_session_assignments = PyNone
    /\ candidate_session_assignments = PyNone
    /\ epoch = 0
    /\ history = <<>>
    /\ output_file = PyNone
    /\ pc = "Idle"
    /\ max_attempts \in MaxAttemptsValues
    /\ verbose \in VerboseValues
    /\ last_shuffle = <<>>
    /\ other_run = PyNone
    /\ encode_input = <<>>
    /\ encode_result = PyNone

NextParse == Begin

SpecParse == InitParse /\ [][NextParse]_vars

\* A non-blank line fails when its field count is wrong, its start time is
\* outside 7..19 or its week day is not one of the seven names.
EncodingFails(week_day, start_time_code) ==
    \/ Hour24(start_time_code) < 7
    \/ Hour24(start_time_code) > 19
    \/ week_day.word \notin CanonicalDays

SessionLineFails(line) ==
    /\ line # <<>>
    /\ \/ Len(line) # 2
       \/ Len(line[2]) # 2
       \/ EncodingFails(line[1], line[2][1])

PrefLineFails(line) ==
    /\ line # <<>>
    /\ \/ Len(line) # 4
       \/ Len(line[4]) # 2
       \/ EncodingFails(line[3], line[4][1])

\* The non-blank lines of a file before its first failing line.
FirstFailure(file, Fails(_)) ==
    IF \E k \in 1..Len(file) : Fails(file[k])
    THEN MinOf({k \in 1..Len(file) : Fails(file[k])})
    ELSE Len(file) + 1

KeptLines(file, Fails(_)) ==
    SelectSeq(SubSeq(file, 1, FirstFailure(file, Fails) - 1),
              LAMBDA line : line # <<>>)

SessionFields(s) == <<s.week_day, <<s.start_time_code, s.end_time_code>>>>
PrefFields(p) ==
    <<p.uid, p.name, p.week_day, <<p.start_time_code, p.end_time_code>>>>

\* C19: loading a file stops at its first failing line: the catalog holds one
\* record, in order, for each non-blank line before that line and nothing for
\* that line or any line after it; each catalog is determined by its own file.
C19_LoadStopsAtFirstFailingLine ==
    pc = "Running" =>
        LET kept_sessions == KeptLines(session_file, SessionLineFails)
            kept_prefs == KeptLines(instructor_pref_file, PrefLineFails)
        IN  /\ Len(list_of_session) = Len(kept_sessions)
            /\ \A k \in 1..Len(kept_sessions) :
                   SessionFields(list_of_session[k]) = kept_sessions[k]
            /\ Len(list_of_instructor_prefs) = Len(kept_prefs)
            /\ \A k \in 1..Len(kept_prefs) :
                   PrefFields(list_of_instructor_prefs[k]) = kept_prefs[k]

\* C19 witness: a preference file whose second line fails between two lines
\* that load on their own, next to a session file that loads completely.
C19_Witness ==
    /\ pc = "Running"
    /\ Len(instructor_pref_file) = 3
    /\ ~PrefLineFails(instructor_pref_file[1]) /\ instructor_pref_file[1] # <<>>
    /\ PrefLineFails(instructor_pref_file[2])
    /\ ~PrefLineFails(instructor_pref_file[3]) /\ instructor_pref_file[3] # <<>>
    /\ Len(list_of_instructor_prefs) = 1
    /\ Len(session_file) = 2
    /\ Len(list_of_session) = 2

====
